---- MODULE Spec2Model ----
(***************************************************************************)
(* Groove Rider: audio -> vinyl-style record mesh -> recovered audio.      *)
(*                                                                         *)
(* The model covers                                                        *)
(*   geometry_generator.create_record_geometry  (mesh synthesizer),        *)
(*   validation.extract_audio_from_stl          (stylus simulator),        *)
(*   validation.compare_audio_signals           (comparator),              *)
(*   the final peak normalization of audio_processing.process_audio.       *)
(*                                                                         *)
(* Numbers are exact rationals <<n, d>> (d > 0, lowest terms); lengths are *)
(* in millimetres, angles in turns (theta / 2 pi), so that the spiral is   *)
(* computed without trigonometry. IEEE results that are not numbers are    *)
(* <<1, 0>> (inf), <<-1, 0>> (-inf) and <<0, 0>> (nan).                    *)
(***************************************************************************)
EXTENDS Integers, Sequences, FiniteSets, TLC

\* ------------------------------------------------------------------ bounds
\* longest sample sequence handed to the mesh synthesizer
MaxSamples == 2

\* ------------------------------------------------------- program constants
num_sides_disc == 200
default_lead_in_width == 5
default_lead_out_width == 5
end_clearance == 2
proxy_sr == 22050
decimation_factor == 20
sample_rate == 44100

\* --------------------------------------------------------------- rationals
RECURSIVE Gcd(_, _)
Gcd(a, b) == IF b = 0 THEN a ELSE Gcd(b, a % b)

IAbs(n) == IF n < 0 THEN -n ELSE n

RNorm(n, d) ==
    LET s == IF d < 0 THEN -1 ELSE 1
        g == Gcd(IAbs(n), IAbs(d))
    IN  <<(s * n) \div g, (s * d) \div g>>

R(n) == <<n, 1>>
RAdd(a, b) == RNorm(a[1] * b[2] + b[1] * a[2], a[2] * b[2])
RSub(a, b) == RNorm(a[1] * b[2] - b[1] * a[2], a[2] * b[2])
RMul(a, b) == RNorm(a[1] * b[1], a[2] * b[2])
RDiv(a, b) == RNorm(a[1] * b[2], a[2] * b[1])
RNeg(a) == <<-a[1], a[2]>>
RAbs(a) == <<IAbs(a[1]), a[2]>>
\* order: by integer part, then by fractional part (keeps the products small)
RLt(a, b) ==
    LET fa == a[1] \div a[2]
        fb == b[1] \div b[2]
    IN  \/ fa < fb
        \/ fa = fb /\ (a[1] % a[2]) * b[2] < (b[1] % b[2]) * a[2]
RLe(a, b) == a = b \/ RLt(a, b)
RIsInt(a) == a[2] = 1
\* Python int(): truncation toward zero
RTrunc(a) == IF a[1] >= 0 THEN a[1] \div a[2] ELSE -((-a[1]) \div a[2])

\* ------------------------------------------------------------------ inputs
\* A record profile, read by the synthesizer through cfg.config['record'] /
\* ['audio'] and by the extractor through config['record_dimensions'] /
\* ['groove_geometry']. A profile may leave the key lead_out_width out.
Diameters == {24}
HoleDiameters == {4, 8, 20}
LeadOuts == {2}
GrooveWidths == {0, 2, 1000}
GroovePitches == {0, 1000, 3000}
GrooveDepths == {0, 1}
AmplitudeScales == {<<0, 1>>, <<1, 2>>, <<1, 1>>}
Thicknesses == {2}
Rpms == {<<3333, 100>>, <<45, 1>>}
SampleValues == {<<-1, 1>>, <<0, 1>>, <<1, 1>>}

Profiles ==
    [diameter : Diameters, thickness : Thicknesses, hole_diameter : HoleDiameters,
     lead_in_width : {default_lead_in_width}, lead_out_width : LeadOuts,
     groove_width : GrooveWidths, groove_pitch : GroovePitches,
     groove_depth : GrooveDepths, amplitude_scale : AmplitudeScales]
    \cup
    [diameter : Diameters, thickness : Thicknesses, hole_diameter : HoleDiameters,
     lead_in_width : {default_lead_in_width},
     groove_width : GrooveWidths, groove_pitch : GroovePitches,
     groove_depth : GrooveDepths, amplitude_scale : AmplitudeScales]

SeqsUpTo(S, n) == UNION {[1..k -> S] : k \in 0..n}

VARIABLES
    cfg,            \* the record profile of the session
    samples,        \* the conditioned waveform handed to the synthesizer
    rpm,            \* the playback speed of the session
    stl_vertices,   \* the vertices of the STL file the extractor loads
    gen,            \* what create_record_geometry computed
    ext,            \* what extract_audio_from_stl computed
    original_samples, extracted_samples,   \* the comparator's two arguments
    cmp_ab, cmp_ba, \* compare_audio_signals(a, b) and (b, a)
    norm_in,        \* the samples before the final peak normalization
    norm_out,       \* the outputs of successive normalization passes
    app_config,     \* what config.load_config() gave the page
    uploaded_file,  \* the file in the uploader widget
    rpm_choice,     \* the option selected in the playback speed radio
    session_state,  \* st.session_state
    temp_uploads,   \* the uploaded source files present in the temp directory
    temp_meshes,    \* the STL files present in the temp directory
    run,            \* the Generate clicks so far (the timestamp of the next)
    last_generate,  \* how the last Generate handler ended
    last_validation \* the last call of the validation handler

geomVars == <<cfg, samples, rpm, stl_vertices, gen, ext>>
cmpVars == <<original_samples, extracted_samples, cmp_ab, cmp_ba>>
normVars == <<norm_in, norm_out>>
appVars == <<app_config, uploaded_file, rpm_choice, session_state, temp_uploads,
             temp_meshes, run, last_generate, last_validation>>
vars == <<geomVars, cmpVars, normVars, appVars>>

\* the page is not open
AppUnused ==
    /\ app_config = "unused"
    /\ uploaded_file = "none"
    /\ rpm_choice = "none"
    /\ session_state = <<>>
    /\ temp_uploads = {}
    /\ temp_meshes = {}
    /\ run = 0
    /\ last_generate = [exit |-> "none"]
    /\ last_validation = [status |-> "idle"]

\* ---------------------------------------------------------------- linspace
\* np.linspace(a, b, n): n evenly spaced values from a to b inclusive
\* element idx (0-based) of np.linspace(a, b, n)
LinspaceAt(a, b, n, idx) ==
    IF n = 1 THEN a
    ELSE RAdd(a, RDiv(RMul(R(idx), RSub(b, a)), R(n - 1)))

Linspace(a, b, n) == [i \in 1..n |-> LinspaceAt(a, b, n, i - 1)]

\* two polar points (r, theta in turns) are the same point of the plane
SamePoint(r1, t1, r2, t2) ==
    \/ r1 = R(0) /\ r2 = R(0)
    \/ r1 = r2 /\ RIsInt(RSub(t1, t2))
    \/ r1 = RNeg(r2) /\ RIsInt(RSub(RSub(t1, t2), <<1, 2>>))

\* ============================================================ synthesizer
record_radius(c) == RNorm(c.diameter, 2)
hole_radius(c) == RNorm(c.hole_diameter, 2)

\* record_config.get('lead_out_width', 5)
LeadOutWidth(c) ==
    IF "lead_out_width" \in DOMAIN c THEN c.lead_out_width ELSE default_lead_out_width

outer_radius(c) == RSub(record_radius(c), R(c.lead_in_width))
inner_radius(c) == RAdd(hole_radius(c), R(LeadOutWidth(c)))
track_width(c) == RSub(outer_radius(c), inner_radius(c))

num_rotations(c) == RTrunc(RDiv(track_width(c), R(c.groove_width)))

GenTheta(c, n) == Linspace(R(0), R(num_rotations(c)), n)
\* r running from the inner radius outwards
GenRInsideOut(c, n) == Linspace(inner_radius(c), outer_radius(c), n)
GenR(c, n) == Linspace(outer_radius(c), inner_radius(c), n)

\* z_modulation and z_center of one sample
z_modulation(c, s) == RMul(RMul(s, R(c.groove_depth)), c.amplitude_scale)
z_center(c, s) ==
    RSub(RSub(RNorm(c.thickness, 2), RNorm(c.groove_depth, 2)), z_modulation(c, s))

\* the base disc: 2 rings of num_sides_disc columns, a top and a bottom vertex each
DiscVertices ==
    [k \in 1..(4 * num_sides_disc) |->
        LET j == (k - 1) % (2 * num_sides_disc)
        IN  [ring |-> IF k <= 2 * num_sides_disc THEN "outer" ELSE "hole",
             side |-> j \div 2,
             top |-> (j % 2 = 0)]]

DiscFacesOf(i) ==
    LET next_i == (i + 1) % num_sides_disc
        off == num_sides_disc * 2
    IN  << <<i * 2, next_i * 2, i * 2 + 1>>,
           <<next_i * 2, next_i * 2 + 1, i * 2 + 1>>,
           <<off + i * 2, off + i * 2 + 1, off + next_i * 2>>,
           <<off + next_i * 2, off + i * 2 + 1, off + next_i * 2 + 1>>,
           <<i * 2, off + i * 2, off + next_i * 2>>,
           <<i * 2, off + next_i * 2, next_i * 2>>,
           <<i * 2 + 1, off + next_i * 2 + 1, off + i * 2 + 1>>,
           <<i * 2 + 1, next_i * 2 + 1, off + next_i * 2 + 1>> >>

DiscFaces ==
    [k \in 1..(8 * num_sides_disc) |-> DiscFacesOf((k - 1) \div 8)[((k - 1) % 8) + 1]]

\* the two faces of one groove segment, from the base index idx
GrooveFacesBad(idx) == << <<idx + 1, idx + 3, idx + 2>>, <<idx + 2, idx + 3, idx + 4>> >>
GrooveFaces(idx) == << <<idx, idx + 2, idx + 1>>, <<idx + 1, idx + 2, idx + 3>> >>

\* the four vertices of segment i (Python index i, between points i-1 and i)
GrooveVertices(i, zc) ==
    << [seg |-> i, point |-> i - 1, side |-> "minus", z |-> zc[i]],
       [seg |-> i, point |-> i - 1, side |-> "plus", z |-> zc[i]],
       [seg |-> i, point |-> i, side |-> "minus", z |-> zc[i + 1]],
       [seg |-> i, point |-> i, side |-> "plus", z |-> zc[i + 1]] >>

\* the loop "for i in range(1, num_points_spiral)": verts and faces are the
\* entries appended to all_vertices / all_faces after the disc's
RECURSIVE BuildGroove(_, _, _, _, _, _, _)
BuildGroove(i, n, th, rr, zc, verts, faces) ==
    IF i >= n THEN [vertices |-> verts, faces |-> faces]
    ELSE IF SamePoint(rr[i + 1], th[i + 1], rr[i], th[i])
         THEN BuildGroove(i + 1, n, th, rr, zc, verts, faces)
         ELSE LET idx == Len(DiscVertices) + Len(verts)
              IN  BuildGroove(i + 1, n, th, rr, zc,
                              verts \o GrooveVertices(i, zc),
                              faces \o GrooveFaces(idx))

GenIdle == [status |-> "idle"]

create_record_geometry(smp, c) ==
    IF c.groove_width = 0
    THEN \* track_width / groove_width raises after the disc lists are built
         [status |-> "ZeroDivisionError",
          built_vertices |-> Len(DiscVertices), built_faces |-> Len(DiscFaces)]
    ELSE LET n == Len(smp)
             th == GenTheta(c, n)
             rr == GenR(c, n)
             zc == [i \in 1..n |-> z_center(c, smp[i])]
             g == BuildGroove(1, n, th, rr, zc, <<>>, <<>>)
         IN  [status |-> "mesh",
              outer_radius |-> outer_radius(c),
              inner_radius |-> inner_radius(c),
              num_rotations |-> num_rotations(c),
              theta |-> th, r |-> rr, z_center |-> zc,
              groove_vertices |-> g.vertices,
              groove_faces |-> g.faces,
              built_vertices |-> Len(DiscVertices) + Len(g.vertices),
              built_faces |-> Len(DiscFaces) + Len(g.faces)]

\* ======================================================= peak normalization
\* IEEE values: a rational, or inf, -inf, nan
PosInf == <<1, 0>>
NegInf == <<-1, 0>>
NaN == <<0, 0>>
IsNum(x) == x[2] # 0

XAbs(x) == <<IAbs(x[1]), x[2]>>

RECURSIVE RMaxSeq(_)
RMaxSeq(xs) ==
    IF Len(xs) = 1 THEN xs[1]
    ELSE LET m == RMaxSeq(Tail(xs)) IN IF RLt(xs[1], m) THEN m ELSE xs[1]

\* np.max(np.abs(xs)) of a non-empty array: nan propagates
XMaxAbs(xs) ==
    LET a == [i \in 1..Len(xs) |-> XAbs(xs[i])]
    IN  IF \E i \in 1..Len(a) : a[i] = NaN THEN NaN
        ELSE IF \E i \in 1..Len(a) : a[i] = PosInf THEN PosInf
        ELSE RMaxSeq(a)

\* the test "max_abs > 0"
XPositive(m) == IF m = NaN THEN FALSE ELSE IF m = PosInf THEN TRUE ELSE RLt(R(0), m)

\* x / m for a positive m
XDiv(x, m) ==
    IF x = NaN THEN NaN
    ELSE IF ~IsNum(x) THEN (IF m = PosInf THEN NaN ELSE x)
    ELSE IF m = PosInf THEN R(0)
    ELSE RDiv(x, m)

\* "max_abs = np.max(np.abs(samples)); if max_abs > 0: samples /= max_abs"
\* np.max raises ValueError on a zero-size array
PeakNormalize(xs) ==
    IF Len(xs) = 0 THEN [status |-> "ValueError", samples |-> <<>>]
    ELSE LET m == XMaxAbs(xs)
         IN  [status |-> "ok",
              samples |-> [i \in 1..Len(xs) |->
                              IF XPositive(m) THEN XDiv(xs[i], m) ELSE xs[i]]]

\* ================================================================ extractor
r_start(c) == RSub(record_radius(c), R(c.lead_in_width))
r_end(c) == RAdd(hole_radius(c), R(end_clearance))

seconds_per_rotation(rp) == RDiv(R(60), rp)
total_rotations(c) == RDiv(RSub(r_start(c), r_end(c)), R(c.groove_pitch))
total_duration_seconds(c, rp) == RMul(total_rotations(c), seconds_per_rotation(rp))
num_points(c, rp) == RTrunc(RMul(total_duration_seconds(c, rp), R(proxy_sr)))

\* np.arange(0, len(theta), decimation_factor)
indices_to_check(n) ==
    [k \in 1..((n + decimation_factor - 1) \div decimation_factor) |->
        (k - 1) * decimation_factor]

base_depth(c) == R(-c.groove_depth)
search_radius(c) == RNorm(c.groove_pitch, 2)
modulation_range(c) == RMul(c.amplitude_scale, R(c.groove_depth))

\* tree.query_ball_point([x, y, 0], r = search_radius) on the 3-D tree of the
\* vertices: the vertices at Euclidean distance <= r of the point (x, y, 0),
\* where x^2 + y^2 = radius_val^2. Every vertex of the files of this model
\* lies on the record's axis (x = y = 0), so its squared distance to the
\* query point is radius_val^2 + z^2, and it is in the ball when
\* radius_val^2 <= rad^2 - z^2.
query_ball_point(vertices, radius_val, rad) ==
    {v \in vertices :
        RLe(RMul(radius_val, radius_val), RSub(RMul(rad, rad), RMul(v.z, v.z)))}

\* np.argmin over the z column: the lowest z among the found vertices
LowestZ(found) == CHOOSE z \in {v.z : v \in found} : \A w \in found : RLe(z, w.z)

\* the z the stylus reads at one spiral point
ZVal(c, found) == IF found = {} THEN base_depth(c) ELSE LowestZ(found)

\* "(z_val - base_depth) / (amplitude_scale * groove_depth_mm)". With a zero
\* divisor: z_val is the Python float base_depth when nothing was found, and
\* the division raises ZeroDivisionError; it is a numpy scalar when a vertex
\* was found, and the division yields inf, -inf or nan.
Amplitude(c, found) ==
    LET num == RSub(ZVal(c, found), base_depth(c))
        den == modulation_range(c)
    IN  IF den # R(0) THEN [raised |-> FALSE, value |-> RDiv(num, den)]
        ELSE IF found = {} THEN [raised |-> TRUE, value |-> NaN]
        ELSE IF num = R(0) THEN [raised |-> FALSE, value |-> NaN]
        ELSE IF RLt(R(0), num) THEN [raised |-> FALSE, value |-> PosInf]
        ELSE [raised |-> FALSE, value |-> NegInf]

ExtIdle == [status |-> "idle"]

extract_audio_from_stl(vertices, c, rp) ==
    IF c.groove_pitch = 0 THEN [status |-> "ZeroDivisionError", at |-> "total_rotations"]
    ELSE
    LET n == num_points(c, rp)
    IN  IF n < 0 THEN [status |-> "ValueError", at |-> "linspace"]
        ELSE
        LET idxs == indices_to_check(n)
            steps == Len(idxs)
            th == [k \in 1..steps |-> LinspaceAt(R(0), total_rotations(c), n, idxs[k])]
            rr == [k \in 1..steps |-> LinspaceAt(r_start(c), r_end(c), n, idxs[k])]
            found == [k \in 1..steps |->
                         query_ball_point(vertices, rr[k], search_radius(c))]
            amp == [k \in 1..steps |-> Amplitude(c, found[k])]
            depths == [k \in 1..steps |-> amp[k].value]
            geometry == [r_start |-> r_start(c), r_end |-> r_end(c),
                         total_rotations |-> total_rotations(c),
                         num_points |-> n, theta |-> th, r |-> rr, found |-> found,
                         z_val |-> [k \in 1..steps |-> ZVal(c, found[k])]]
        IN  IF \E k \in 1..steps : amp[k].raised
            THEN [status |-> "ZeroDivisionError", at |-> "amplitude"] @@ geometry
            ELSE LET nrm == PeakNormalize(depths)
                 IN  IF nrm.status # "ok"
                     THEN [status |-> "ValueError", at |-> "max"] @@ geometry
                     ELSE [status |-> "ok", extracted_depths |-> depths,
                           extracted_samples |-> nrm.samples] @@ geometry

\* =============================================== the geometry specification
\* The STL files handed to the extractor: point sets on the record's axis, at
\* the heights the synthesizer cuts for the sample values, at the disc's
\* bottom face, and far above the record.
AxisVertex(z) == [x |-> 0, y |-> 0, z |-> z]

StlFiles(c) ==
    {{}}
    \cup {{AxisVertex(z_center(c, s))} : s \in SampleValues}
    \cup {{AxisVertex(RNorm(-c.thickness, 2))}}
    \cup {{AxisVertex(R(2000))}}
    \cup {{AxisVertex(z_center(c, R(-1))), AxisVertex(z_center(c, R(1)))}}

CmpIdle == [status |-> "idle"]

OtherIdleOfGeom ==
    /\ original_samples = <<>>
    /\ extracted_samples = <<>>
    /\ cmp_ab = CmpIdle
    /\ cmp_ba = CmpIdle
    /\ norm_in = <<>>
    /\ norm_out = <<>>
    /\ AppUnused

InitGeom ==
    /\ cfg \in Profiles
    /\ samples \in SeqsUpTo(SampleValues, MaxSamples)
    /\ rpm \in Rpms
    /\ stl_vertices = {}
    /\ gen = GenIdle
    /\ ext = ExtIdle
    /\ OtherIdleOfGeom

CreateRecordGeometry ==
    /\ gen.status = "idle"
    /\ gen' = create_record_geometry(samples, cfg)
    /\ UNCHANGED <<cfg, samples, rpm, stl_vertices, ext, cmpVars, normVars, appVars>>

ExtractAudioFromStl ==
    /\ ext.status = "idle"
    /\ \E file \in StlFiles(cfg) :
          /\ stl_vertices' = file
          /\ ext' = extract_audio_from_stl(file, cfg, rpm)
    /\ UNCHANGED <<cfg, samples, rpm, gen, cmpVars, normVars, appVars>>

NextGeom == CreateRecordGeometry \/ ExtractAudioFromStl

SpecGeom == InitGeom /\ [][NextGeom]_vars

\* ------------------------------------------------------ geometry: claims
GenBuilt == gen.status = "mesh"
ExtHasSpiral == "theta" \in DOMAIN ext

\* a valid record profile (outer radius > start radius > end radius > hole
\* radius, pitch > 0, depth >= 0), as each component reads it
GenValid(c) ==
    /\ RLt(outer_radius(c), record_radius(c))
    /\ RLt(inner_radius(c), outer_radius(c))
    /\ RLt(hole_radius(c), inner_radius(c))
    /\ c.groove_width > 0
    /\ c.groove_depth >= 0

ExtValid(c) ==
    /\ RLt(r_start(c), record_radius(c))
    /\ RLt(r_end(c), r_start(c))
    /\ RLt(hole_radius(c), r_end(c))
    /\ c.groove_pitch > 0
    /\ c.groove_depth >= 0

\* C1: for the same record profile, RPM and sample count, the spiral of the
\* synthesizer and the spiral recomputed by the extractor are identical: same
\* start radius, same end radius, same rotation count, and the same
\* (theta, r) at every sample index.
SamePitch(c) == c.groove_width = c.groove_pitch

C1_SpiralsIdentical ==
    (GenBuilt /\ ExtHasSpiral /\ SamePitch(cfg) /\ GenValid(cfg) /\ ExtValid(cfg)) =>
        /\ ext.r_start = gen.outer_radius
        /\ ext.r_end = gen.inner_radius
        /\ ext.total_rotations = R(gen.num_rotations)
        /\ (Len(ext.theta) = Len(gen.theta) =>
               \A i \in 1..Len(gen.theta) :
                   ext.theta[i] = gen.theta[i] /\ ext.r[i] = gen.r[i])

\* C2: the extractor's depth-to-amplitude inversion inverts the synthesizer's
\* amplitude-to-depth mapping: where the stylus reads the depth cut for
\* sample s, the amplitude computed (before the final normalization) is s.
C2_DepthInversion ==
    (GenBuilt /\ ext.status = "ok" /\ modulation_range(cfg) # R(0)) =>
        \A i \in 1..Len(samples) : \A k \in 1..Len(ext.found) :
            ext.found[k] = {AxisVertex(gen.z_center[i])} =>
                ext.extracted_depths[k] = samples[i]

\* C3: for every sample in [-1, 1] and every configured amplitude scale, the
\* groove centreline depth, measured from the record's top surface
\* (z = thickness / 2), never exceeds 0.
TopSurface(c) == RNorm(c.thickness, 2)

C3_DepthBound ==
    GenBuilt =>
        \A j \in 1..Len(gen.groove_vertices) :
            RLe(RSub(gen.groove_vertices[j].z, TopSurface(cfg)), R(0))

\* C4: a profile with too little track width for the audio duration at the
\* chosen RPM, or with hole radius >= outer radius, makes mesh generation
\* report a configuration error before any vertex or face is built.
RotationsNeeded(smp, rp) ==
    RDiv(RMul(RNorm(Len(smp), sample_rate), rp), R(60))

TrackTooNarrow(c, smp, rp) ==
    RLt(track_width(c), RMul(RotationsNeeded(smp, rp), R(c.groove_width)))

HoleTooWide(c) == RLe(outer_radius(c), hole_radius(c))

C4_ConfigErrorBeforeMesh ==
    (/\ gen.status # "idle"
     /\ cfg.groove_width > 0
     /\ (TrackTooNarrow(cfg, samples, rpm) \/ HoleTooWide(cfg))) =>
        /\ gen.status = "ConfigurationError"
        /\ gen.built_vertices = 0
        /\ gen.built_faces = 0

\* C5: for every valid profile and RPM, theta is non-decreasing and r is
\* non-increasing over the sample index, and r never falls below the hole
\* radius; for the synthesizer's spiral and for the extractor's.
Monotone(th, rr, c) ==
    /\ \A i \in 1..(Len(th) - 1) : RLe(th[i], th[i + 1]) /\ RLe(rr[i + 1], rr[i])
    /\ \A i \in 1..Len(rr) : RLe(hole_radius(c), rr[i])

C5_SpiralMonotone ==
    /\ (GenBuilt /\ GenValid(cfg)) => Monotone(gen.theta, gen.r, cfg)
    /\ (ExtHasSpiral /\ ExtValid(cfg)) => Monotone(ext.theta, ext.r, cfg)

C5_Witness ==
    /\ GenBuilt /\ GenValid(cfg) /\ Len(gen.r) >= 2
    /\ RLt(gen.r[2], gen.r[1]) /\ RLt(gen.theta[1], gen.theta[2])
    /\ ExtHasSpiral /\ ExtValid(cfg) /\ Len(ext.r) >= 2
    /\ RLt(ext.r[2], ext.r[1]) /\ RLt(ext.theta[1], ext.theta[2])

\* C6: for any sample sequence (empty, a single sample, coincident points
\* skipped), the mesh has at least one face and every face's three vertex
\* indices are within the vertex list the mesh is assembled from.
DiscIndices == UNION {{DiscFaces[k][1], DiscFaces[k][2], DiscFaces[k][3]} : k \in 1..Len(DiscFaces)}
DiscMaxIndex == CHOOSE m \in DiscIndices : \A x \in DiscIndices : x <= m
DiscMinIndex == CHOOSE m \in DiscIndices : \A x \in DiscIndices : m <= x

C6_MeshValid ==
    GenBuilt =>
        LET nv == Len(DiscVertices) + Len(gen.groove_vertices)
        IN  /\ Len(DiscFaces) + Len(gen.groove_faces) > 0
            /\ gen.built_vertices = nv
            /\ DiscMinIndex >= 0 /\ DiscMaxIndex < nv
            /\ \A f \in 1..Len(gen.groove_faces) : \A j \in 1..3 :
                  gen.groove_faces[f][j] >= 0 /\ gen.groove_faces[f][j] < nv

C6_Witness ==
    /\ GenBuilt /\ Len(samples) >= 2 /\ Len(gen.groove_faces) >= 2

\* C7: when the modulation range (amplitude scale x groove depth) is 0,
\* extract_audio_from_stl returns an all-zero waveform and divides by zero
\* nowhere.
C7_ZeroModulationSilent ==
    (ext.status # "idle" /\ ExtValid(cfg) /\ modulation_range(cfg) = R(0)) =>
        /\ ext.status = "ok"
        /\ \A k \in 1..Len(ext.extracted_samples) : ext.extracted_samples[k] = R(0)

\* the vertices whose horizontal (x, y) distance to the spiral point is within
\* rad, whatever their z; every vertex of these files is on the axis, at
\* horizontal distance radius_val of the point
InCylinder(vertices, radius_val, rad) ==
    {v \in vertices : RLe(RMul(radius_val, radius_val), RMul(rad, rad))}

\* C12: at every spiral point the extractor evaluates, the candidate set is
\* exactly the mesh vertices within the search radius (pitch / 2) in
\* horizontal distance, whatever their z, and when that set is not empty the
\* z used is the minimum z over it.
C12_CandidatesInCylinder ==
    (ext.status = "ok" /\ ExtValid(cfg)) =>
        \A k \in 1..Len(ext.r) :
            LET cyl == InCylinder(stl_vertices, ext.r[k], search_radius(cfg))
            IN  /\ ext.found[k] = cyl
                /\ cyl # {} => ext.z_val[k] = LowestZ(cyl)

\* =============================================================== comparator
RECURSIVE RSum(_)
RSum(xs) == IF Len(xs) = 0 THEN R(0) ELSE RAdd(xs[1], RSum(Tail(xs)))

\* cos(2 pi n / num) where it is rational
CosTurn(n, num) ==
    IF num = 3 THEN (IF n % 3 = 0 THEN R(1) ELSE <<-1, 2>>)
    ELSE (IF n % 4 = 0 THEN R(1) ELSE IF n % 4 = 2 THEN R(-1) ELSE R(0))

\* scipy.signal.resample(x, num), the Fourier method: rfft, copy the spectrum
\* (halving the Nyquist bin of an even-length input when upsampling), irfft,
\* scale by num / len(x). Given here where the result is rational: an
\* unchanged length (irfft o rfft), a one-sample input (its constant), and a
\* two-sample input stretched to 3 or 4 samples.
ResampleDefined(len, num) ==
    \/ len = num /\ len > 0
    \/ len = 1 /\ num >= 1
    \/ len = 2 /\ num \in {3, 4}

resample(x, num) ==
    IF Len(x) = num THEN x
    ELSE IF Len(x) = 1 THEN [n \in 1..num |-> x[1]]
    ELSE [n \in 1..num |->
             RAdd(RDiv(RAdd(x[1], x[2]), R(2)),
                  RMul(RDiv(RSub(x[1], x[2]), R(2)), CosTurn(n - 1, num)))]

\* a correlation coefficient c, kept exactly as its sign and its square; nan
\* when a series has no variance
ScoreZero == [nan |-> FALSE, sign |-> 0, sq |-> R(0)]
ScoreNaN == [nan |-> TRUE, sign |-> 0, sq |-> R(0)]

Sign(a) == IF a[1] > 0 THEN 1 ELSE IF a[1] < 0 THEN -1 ELSE 0

Products(x, y) == [i \in 1..Len(x) |-> RMul(x[i], y[i])]
\* n * sum(x y) - sum(x) sum(y): n^2 times the covariance
CoMoment(x, y) ==
    RSub(RMul(R(Len(x)), RSum(Products(x, y))), RMul(RSum(x), RSum(y)))

\* a slope instead of a correlation: the covariance over the first variance
corrcoef_slope(x, y) ==
    LET c == CoMoment(x, y)
        vx == CoMoment(x, x)
    IN  IF vx = R(0) THEN ScoreNaN
        ELSE [nan |-> FALSE, sign |-> Sign(c), sq |-> RDiv(RMul(c, c), RMul(vx, vx))]
\* np.corrcoef(x, y)[0, 1]
corrcoef(x, y) ==
    LET c == CoMoment(x, y)
        vx == CoMoment(x, x)
        vy == CoMoment(y, y)
    IN  IF RMul(vx, vy) = R(0) THEN ScoreNaN
        ELSE [nan |-> FALSE, sign |-> Sign(c), sq |-> RDiv(RMul(c, c), RMul(vx, vy))]

\* the guard of the degenerate case
EitherEmptyExtractedOnly(original, extracted) == Len(extracted) = 0
EitherEmpty(original, extracted) == Len(extracted) = 0 \/ Len(original) = 0

Raised(what) == [status |-> "raised", error |-> what]

compare_audio_signals(original, extracted) ==
    IF EitherEmpty(original, extracted)
    THEN [status |-> "returned", score |-> ScoreZero, resampled |-> "none",
          num_samples |-> 0, original_final |-> <<>>, extracted_final |-> <<>>]
    ELSE IF Len(original) > Len(extracted)
    THEN IF ~ResampleDefined(Len(extracted), Len(original)) THEN Raised("resample")
         ELSE LET extracted_final == resample(extracted, Len(original))
              IN  [status |-> "returned",
                   score |-> corrcoef(original, extracted_final),
                   resampled |-> "extracted", num_samples |-> Len(original),
                   original_final |-> original, extracted_final |-> extracted_final]
    ELSE IF ~ResampleDefined(Len(original), Len(extracted)) THEN Raised("resample")
         ELSE LET original_final == resample(original, Len(extracted))
              IN  [status |-> "returned",
                   score |-> corrcoef(original_final, extracted),
                   resampled |-> "original", num_samples |-> Len(extracted),
                   original_final |-> original_final, extracted_final |-> extracted]

\* ------------------------------------------- the comparator specification
\* longest waveform handed to the comparator
MaxCmpLen == 3

GeomUnused ==
    /\ cfg = <<>>
    /\ samples = <<>>
    /\ rpm = <<>>
    /\ stl_vertices = {}
    /\ gen = GenIdle
    /\ ext = ExtIdle

InitCmp ==
    /\ original_samples \in SeqsUpTo(SampleValues, MaxCmpLen)
    /\ extracted_samples \in SeqsUpTo(SampleValues, MaxCmpLen)
    /\ \/ Len(original_samples) = 0
       \/ Len(extracted_samples) = 0
       \/ IF Len(original_samples) > Len(extracted_samples)
          THEN ResampleDefined(Len(extracted_samples), Len(original_samples))
          ELSE ResampleDefined(Len(original_samples), Len(extracted_samples))
    /\ cmp_ab = CmpIdle
    /\ cmp_ba = CmpIdle
    /\ norm_in = <<>>
    /\ norm_out = <<>>
    /\ GeomUnused
    /\ AppUnused

\* compare_audio_signals(a, b), with a = original_samples, b = extracted_samples
CompareAB ==
    /\ cmp_ab.status = "idle"
    /\ cmp_ab' = compare_audio_signals(original_samples, extracted_samples)
    /\ UNCHANGED <<geomVars, original_samples, extracted_samples, cmp_ba, normVars, appVars>>

\* compare_audio_signals(b, a)
CompareBA ==
    /\ cmp_ba.status = "idle"
    /\ cmp_ba' = compare_audio_signals(extracted_samples, original_samples)
    /\ UNCHANGED <<geomVars, original_samples, extracted_samples, cmp_ab, normVars, appVars>>

NextCmp == CompareAB \/ CompareBA

SpecCmp == InitCmp /\ [][NextCmp]_vars

\* C8: compare_audio_signals returns similarity 0.0, without raising and
\* without resampling, whenever either input waveform is empty.
DegenerateResult(res) ==
    /\ res.status = "returned"
    /\ res.score = ScoreZero
    /\ res.resampled = "none"

C8_EmptyGivesZero ==
    (Len(original_samples) = 0 \/ Len(extracted_samples) = 0) =>
        /\ cmp_ab.status # "idle" => DegenerateResult(cmp_ab)
        /\ cmp_ba.status # "idle" => DegenerateResult(cmp_ba)

C8_Witness ==
    /\ Len(original_samples) = 0 /\ Len(extracted_samples) > 0
    /\ cmp_ab.status = "returned" /\ cmp_ba.status = "returned"

\* which of the two waveforms a, b a call resampled
ResampledAB ==
    IF cmp_ab.resampled = "original" THEN "a"
    ELSE IF cmp_ab.resampled = "extracted" THEN "b" ELSE "none"
ResampledBA ==
    IF cmp_ba.resampled = "original" THEN "b"
    ELSE IF cmp_ba.resampled = "extracted" THEN "a" ELSE "none"

BothReturned == cmp_ab.status = "returned" /\ cmp_ba.status = "returned"

Shorter ==
    IF Len(original_samples) < Len(extracted_samples) THEN "a" ELSE "b"

MaxNormLen == 3

\* amplitudes as the compressor leaves them, before normalization
NormValues == {<<-2, 1>>, <<-1, 2>>, <<0, 1>>, <<1, 2>>, <<1, 1>>}

InitNorm ==
    /\ norm_in \in SeqsUpTo(NormValues, MaxNormLen)
    /\ norm_out = <<>>
    /\ original_samples = <<>>
    /\ extracted_samples = <<>>
    /\ cmp_ab = CmpIdle
    /\ cmp_ba = CmpIdle
    /\ GeomUnused
    /\ AppUnused

\* step 6 of process_audio, run on the samples and then on its own output
NormalizePass ==
    /\ Len(norm_out) < 2
    /\ IF norm_out = <<>> THEN TRUE ELSE norm_out[Len(norm_out)].status = "ok"
    /\ LET input == IF norm_out = <<>> THEN norm_in
                    ELSE norm_out[Len(norm_out)].samples
       IN  norm_out' = Append(norm_out, PeakNormalize(input))
    /\ UNCHANGED <<geomVars, cmpVars, norm_in, appVars>>

NextNorm == NormalizePass

SpecNorm == InitNorm /\ [][NextNorm]_vars

InUnitRange(xs) ==
    \A i \in 1..Len(xs) : IsNum(xs[i]) /\ RLe(R(-1), xs[i]) /\ RLe(xs[i], R(1))
AllZero(xs) == \A i \in 1..Len(xs) : xs[i] = R(0)
PeakIsOne(xs) == Len(xs) > 0 /\ XMaxAbs(xs) = R(1)

\* C10: the final peak normalization is total and idempotent: on every input
\* it returns an output whose peak is exactly 1 or that is all-zero, every
\* output sample lies in [-1, 1], and a second pass changes nothing.
C10_NormalizationTotalIdempotent ==
    /\ Len(norm_out) >= 1 =>
          /\ norm_out[1].status = "ok"
          /\ PeakIsOne(norm_out[1].samples) \/ AllZero(norm_out[1].samples)
          /\ InUnitRange(norm_out[1].samples)
    /\ Len(norm_out) >= 2 =>
          /\ norm_out[2].status = "ok"
          /\ norm_out[2].samples = norm_out[1].samples

\* what does hold: the same, on every non-empty input
NormalizationOfNonEmpty ==
    Len(norm_in) > 0 => C10_NormalizationTotalIdempotent


\* ================================================================= the page
\* The Streamlit page of app.py: every click reruns the script, and the
\* handler of the clicked button runs to its end before the next click.
MaxRuns == 3

\* Python's None, and the values session state holds: <<n>> for what run n
\* produced, <<n, m>> for what was computed from run n's samples and mesh m
None == <<>>

UploadNames == {"a.mp3", "b.mp3"}
RpmOptions == {"33 1/3 RPM", "45 RPM"}

\* the outcomes of config.load_config(): the settings, or an exception
load_config == {"settings", "error"}
\* the outcomes of geometry_generator.create_record_mesh(samples,
\* sample_rate, rpm_value, app_config): a mesh, or an exception
create_record_mesh == {"mesh", "error"}

\* "'33' in rpm_choice"
Has33(choice) == choice \in {"33 1/3 RPM", "33"}
\* "33.33 if '33' in rpm_choice else 45.0"
rpm_value(choice) == IF Has33(choice) THEN <<3333, 100>> ELSE <<45, 1>>

\* st.session_state.get('rpm_choice', '33')
SessionRpmChoice(ss) ==
    IF "rpm_choice" \in DOMAIN ss THEN ss.rpm_choice ELSE "33"

\* session state after the initialization block
SessionInit ==
    [output_path |-> None, original_samples |-> None, sample_rate |-> None,
     original_wav_bytes |-> None, extracted_wav_bytes |-> None,
     similarity_score |-> None, comparison_fig |-> None]

\* the first lines of the Generate handler drop the earlier analysis
ClearResults(ss) ==
    [ss EXCEPT !.original_wav_bytes = None, !.extracted_wav_bytes = None,
               !.similarity_score = None, !.comparison_fig = None]

\* the STL file at a path of the temp directory
MeshAt(path) == CHOOSE m \in temp_meshes : <<m.path>> = path

InitApp ==
    /\ app_config \in load_config
    /\ uploaded_file = "none"
    /\ rpm_choice = "33 1/3 RPM"
    /\ session_state = SessionInit
    /\ temp_uploads = {}
    /\ temp_meshes = {}
    /\ run = 0
    /\ last_generate = [exit |-> "none"]
    /\ last_validation = [status |-> "idle"]
    /\ GeomUnused
    /\ original_samples = <<>>
    /\ extracted_samples = <<>>
    /\ cmp_ab = CmpIdle
    /\ cmp_ba = CmpIdle
    /\ norm_in = <<>>
    /\ norm_out = <<>>

\* st.stop() ends every run of the script when the settings did not load
PageShown == app_config = "settings"

\* the user puts a file in the uploader, or takes it out
ChooseFile ==
    /\ PageShown
    /\ \E name \in UploadNames \cup {"none"} :
          /\ name # uploaded_file
          /\ uploaded_file' = name
    /\ UNCHANGED <<app_config, rpm_choice, session_state, temp_uploads,
                   temp_meshes, run, last_generate, last_validation,
                   geomVars, cmpVars, normVars>>

\* the user selects a playback speed; the radio has no key, so nothing is
\* stored in session state
ChooseRpm ==
    /\ PageShown
    /\ \E choice \in RpmOptions :
          /\ choice # rpm_choice
          /\ rpm_choice' = choice
    /\ UNCHANGED <<app_config, uploaded_file, session_state, temp_uploads,
                   temp_meshes, run, last_generate, last_validation,
                   geomVars, cmpVars, normVars>>

\* where a run of the Generate handler can end
GenerateExits ==
    {"open_error", "write_error", "audio_error", "mesh_error", "save_error", "ok"}

\* the "Generate STL File" handler, to the exit it takes
Generate(exit, partial) ==
    LET input_path == uploaded_file
        ts == run + 1
        cleared == ClearResults(session_state)
        processed == [cleared EXCEPT !.original_samples = <<ts>>,
                                     !.sample_rate = <<ts>>]
        saved == [path |-> ts, samples |-> ts, rpm |-> rpm_value(rpm_choice),
                  complete |-> exit = "ok"]
        written == temp_uploads \cup {input_path}
    IN  /\ PageShown
        /\ uploaded_file # "none"
        /\ run < MaxRuns
        /\ run' = ts
        /\ last_generate' = [exit |-> exit, input_path |-> input_path]
        /\ CASE exit = "open_error" ->
                  \* open(input_path, "wb") raises: outside the try block
                  /\ session_state' = cleared
                  /\ UNCHANGED <<temp_uploads, temp_meshes>>
             [] exit = "write_error" ->
                  \* f.write raises after open created the file: outside
                  \* the try block, the finally clause does not run
                  /\ session_state' = cleared
                  /\ temp_uploads' = written
                  /\ UNCHANGED temp_meshes
             [] exit = "audio_error" ->
                  /\ session_state' = cleared
                  /\ temp_uploads' = written \ {input_path}
                  /\ UNCHANGED temp_meshes
             [] exit = "mesh_error" ->
                  /\ "error" \in create_record_mesh
                  /\ session_state' = processed
                  /\ temp_uploads' = written \ {input_path}
                  /\ UNCHANGED temp_meshes
             [] exit = "save_error" ->
                  /\ "mesh" \in create_record_mesh
                  /\ session_state' = processed
                  /\ temp_uploads' = written \ {input_path}
                  /\ temp_meshes' = IF partial THEN temp_meshes \cup {saved}
                                    ELSE temp_meshes
             [] exit = "ok" ->
                  /\ "mesh" \in create_record_mesh
                  /\ session_state' = [processed EXCEPT !.output_path = <<ts>>]
                  /\ temp_uploads' = written \ {input_path}
                  /\ temp_meshes' = temp_meshes \cup {saved}
        /\ UNCHANGED <<app_config, uploaded_file, rpm_choice, last_validation,
                       geomVars, cmpVars, normVars>>

GenerateStlFile ==
    \E exit \in GenerateExits, partial \in BOOLEAN :
        /\ partial => exit = "save_error"
        /\ Generate(exit, partial)

\* where a run of the validation handler can end
ValidationExits == {"extract_error", "compare_error", "ok"}

\* the "Run Full Validation" handler
RunFullValidation ==
    \E exit \in ValidationExits :
        LET rpm_used == rpm_value(SessionRpmChoice(session_state))
            path == session_state.output_path
            smp == session_state.original_samples
            wavs == [session_state EXCEPT !.original_wav_bytes = smp,
                                          !.extracted_wav_bytes = path]
        IN  /\ PageShown
            /\ session_state.output_path # None
            /\ last_validation' = [status |-> exit, stl_path |-> path,
                                   rpm |-> rpm_used, original_samples |-> smp]
            /\ session_state' =
                  IF exit = "extract_error" THEN session_state
                  ELSE IF exit = "compare_error" THEN wavs
                  ELSE [wavs EXCEPT !.similarity_score = smp \o path,
                                    !.comparison_fig = smp \o path]
            /\ UNCHANGED <<app_config, uploaded_file, rpm_choice, temp_uploads,
                           temp_meshes, run, last_generate,
                           geomVars, cmpVars, normVars>>

NextApp == ChooseFile \/ ChooseRpm \/ GenerateStlFile \/ RunFullValidation

SpecApp == InitApp /\ [][NextApp]_vars

\* ----------------------------------------------------------- page: claims
\* C11: on every exit path of the Generate handler (success, or an error
\* while writing the upload, in audio processing, in mesh generation or while
\* saving the mesh), the uploaded source file written to the temp directory
\* no longer exists when the handler ends.
C11_UploadDeletedOnEveryExit ==
    last_generate.exit # "none" => last_generate.input_path \notin temp_uploads

\* C13: the RPM the validation handler passes to the extractor equals the RPM
\* that was passed to the mesh generator when the validated mesh was created.
C13_ValidationUsesGenerationRpm ==
    last_validation.status # "idle" =>
        last_validation.rpm = MeshAt(last_validation.stl_path).rpm

\* C14: whenever session state holds an output_path, its original_samples
\* and sample_rate are those of the Generate run that produced the mesh at
\* output_path.
C14_SamplesPairedWithMesh ==
    session_state.output_path # None =>
        /\ session_state.original_samples = <<MeshAt(session_state.output_path).samples>>
        /\ session_state.sample_rate = <<MeshAt(session_state.output_path).samples>>

====
